---- MODULE Spec2Model ----
(***************************************************************************)
(* The ASAP wrapper around the routing solver: solve_asap and its helpers  *)
(* (src/src/utils/asap_helpers.py).  One solve_asap call is a state        *)
(* machine whose steps are separated by the calls to the external solver   *)
(* (the oracle) and to the plotting collaborator.                          *)
(*                                                                         *)
(* A solver result is a Python dict, modelled as a record whose DOMAIN is  *)
(* the set of keys present: reading an absent key raises KeyError.  A      *)
(* route is represented by the arrival of its last step, the only thing    *)
(* the helpers read of it.                                                 *)
(***************************************************************************)
EXTENDS Integers, Sequences, FiniteSets, TLC

\* ------------------------------------------------------------ bounds
\* Largest timestamp of the pipeline model (route ends, window bounds).
MaxTime == 2
\* Largest cost an oracle answer carries.
MaxCost == 2
\* Largest number of oracle calls of one backward sweep that is explored.
MaxSweep == 1

\* Largest pool handed to a filter on its own, and the largest completion
\* time and cost of its members.
MaxPool == 3
MaxCoord == 2
\* Largest timestamp of the runs against a monotone oracle.
MaxHorizon == 8
\* Largest timestamp, and largest number of oracle calls of one backward
\* sweep, of the runs that follow the sweep over several iterations.
MaxSweepTime == 3
MaxDeepSweep == 3

Times == 0..MaxTime
Costs == 1..MaxCost
\* The helpers read the unassigned count only as zero / non-zero.
UnassignedCounts == {0, 1}

\* ------------------------------------------------------------ helpers
SeqMax(s) == CHOOSE m \in {s[k] : k \in DOMAIN s} : \A k \in DOMAIN s : s[k] <= m
SeqMin(s) == CHOOSE m \in {s[k] : k \in DOMAIN s} : \A k \in DOMAIN s : m <= s[k]
SetMin(S) == CHOOSE m \in S : \A x \in S : m <= x

\* max(r["steps"][-1]["arrival"] for r in sol["routes"]); defined only for
\* a non-empty routes list (Python's max() raises ValueError on an empty one).
CompletionTime(sol) == SeqMax(sol.routes)

\* The list with the members at the indices in idx removed, order kept:
\* `for idx in sorted(set(to_remove), reverse=True): solutions.pop(idx)`.
RECURSIVE PopAll(_, _)
PopAll(sols, idx) ==
    IF sols = <<>> THEN <<>>
    ELSE LET n == Len(sols)
             front == PopAll(SubSeq(sols, 1, n - 1), idx)
         IN IF n \in idx THEN front ELSE Append(front, sols[n])

Cost(sol) == sol.summary.cost

\* ------------------------------------------------------------ frontier reduction
\* A faulty scan: a member is compared with its predecessor only.
DominatedByPredecessor(sols) ==
    {i \in 2..Len(sols) :
        /\ CompletionTime(sols[i - 1]) < CompletionTime(sols[i])
        /\ Cost(sols[i - 1]) < Cost(sols[i])}

\* A faulty scan: a member that only ties on cost is marked as well.
DominatedOrTiedOnCost(sols) ==
    {i \in 1..Len(sols) :
        \E j \in 1..Len(sols) :
            /\ i # j
            /\ CompletionTime(sols[j]) < CompletionTime(sols[i])
            /\ Cost(sols[j]) <= Cost(sols[i])}

\* filter_dominated's scan: i is marked when some other member j is strictly
\* better on both completion time and cost.
DominatedIndices(sols) ==
    {i \in 1..Len(sols) :
        \E j \in 1..Len(sols) :
            /\ i # j
            /\ CompletionTime(sols[j]) < CompletionTime(sols[i])
            /\ Cost(sols[j]) < Cost(sols[i])}

\* A faulty removal loop: the marked indices are popped in ascending order, so
\* every pop after the first hits a shifted (or missing) position.
RECURSIVE PopAscending(_, _)
PopAscending(sols, idx) ==
    IF idx = {} THEN sols
    ELSE LET i == SetMin(idx)
             rest == IF i \in 1..Len(sols)
                     THEN SubSeq(sols, 1, i - 1) \o SubSeq(sols, i + 1, Len(sols))
                     ELSE sols
         IN PopAscending(rest, idx \ {i})

filter_dominated_ascending_pop(sols) == PopAscending(sols, DominatedIndices(sols))

filter_dominated(sols) == PopAll(sols, DominatedIndices(sols))

SameCoordinates(a, b) ==
    CompletionTime(a) = CompletionTime(b) /\ Cost(a) = Cost(b)

\* filter_unique's inner loop for one i: the first j > i that is not yet
\* marked and has the coordinates of i (0 when there is none).
FirstDuplicate(sols, i, marked) ==
    LET cands == {j \in (i + 1)..Len(sols) :
                     j \notin marked /\ SameCoordinates(sols[i], sols[j])}
    IN IF cands = {} THEN 0 ELSE SetMin(cands)

\* filter_unique's outer loop from index i on, to_remove being `marked`.
RECURSIVE UniqueScan(_, _, _)
UniqueScan(sols, i, marked) ==
    IF i > Len(sols) THEN marked
    ELSE LET d == FirstDuplicate(sols, i, marked)
         IN UniqueScan(sols, i + 1, IF d = 0 THEN marked ELSE marked \cup {d})

\* A faulty outer loop: a member already marked as a duplicate is not used as
\* a reference any more, which breaks the chain through three equal members.
RECURSIVE UniqueScanSkipMarked(_, _, _)
UniqueScanSkipMarked(sols, i, marked) ==
    IF i > Len(sols) THEN marked
    ELSE LET d == IF i \in marked THEN 0 ELSE FirstDuplicate(sols, i, marked)
         IN UniqueScanSkipMarked(sols, i + 1,
                                 IF d = 0 THEN marked ELSE marked \cup {d})

filter_unique_skip_marked(sols) == PopAll(sols, UniqueScanSkipMarked(sols, 1, {}))

filter_unique(sols) == PopAll(sols, UniqueScan(sols, 1, {}))

\* A faulty step 4: the pool is left in collection order.
SortOmitted(sols) == sols

\* list.sort(key=completion time): a stable sort, as an insertion sort that
\* puts each member after the members whose key is not larger.
RECURSIVE SortByCompletion(_)
SortByCompletion(sols) ==
    IF sols = <<>> THEN <<>>
    ELSE LET n == Len(sols)
             front == SortByCompletion(SubSeq(sols, 1, n - 1))
             x == sols[n]
             k == Cardinality({q \in 1..Len(front) :
                                  CompletionTime(front[q]) <= CompletionTime(x)})
         IN SubSeq(front, 1, k) \o <<x>> \o SubSeq(front, k + 1, Len(front))

\* ------------------------------------------------------------ instance
\* A vehicle is a dict with an optional "time_window" key.
HasWindow(v) == "time_window" \in DOMAIN v

\* The fleets of the pipeline model: a first vehicle without a time window or
\* with the window [0, MaxTime], alone or with a second vehicle whose window
\* is [1, MaxTime].
FirstVehicles == {[id |-> 1], [id |-> 1, time_window |-> <<0, MaxTime>>]}
SecondVehicle == [id |-> 2, time_window |-> <<1, MaxTime>>]
Fleets == {<<v>> : v \in FirstVehicles} \cup {<<v, SecondVehicle>> : v \in FirstVehicles}

\* v.get("time_window", [0, latest])[0]
WindowStartOrZero(v) == IF HasWindow(v) THEN v.time_window[1] ELSE 0

\* earliest_TW (lines 92-95)
EarliestTW(vehicles) ==
    IF vehicles = <<>> THEN 0
    ELSE SetMin({WindowStartOrZero(vehicles[k]) : k \in DOMAIN vehicles})

\* The vehicle loop of a dichotomy probe (lines 110-115) raises KeyError when
\* a vehicle that is kept (candidate >= its default start 0) has no
\* "time_window" key to assign into.
DichotomyShrinkRaises(vehicles, candidate) ==
    \E k \in DOMAIN vehicles :
        ~HasWindow(vehicles[k]) /\ ~(candidate < WindowStartOrZero(vehicles[k]))

\* Clamp(v, h): v["time_window"][1] = h
Clamp(v, h) == [v EXCEPT !.time_window = <<v.time_window[1], h>>]

\* A faulty vehicle loop: every vehicle is kept and clamped, none removed.
ClampAll(vehicles, horizon) ==
    [k \in DOMAIN vehicles |-> Clamp(vehicles[k], horizon)]

\* The vehicles left by the loop `pop if horizon < tw0 else clamp end`.
RECURSIVE Shrink(_, _)
Shrink(vehicles, horizon) ==
    IF vehicles = <<>> THEN <<>>
    ELSE LET n == Len(vehicles)
             front == Shrink(SubSeq(vehicles, 1, n - 1), horizon)
             v == vehicles[n]
         IN IF horizon < WindowStartOrZero(v)
            THEN front
            ELSE Append(front, Clamp(v, horizon))

\* The vehicle loop of a backward step (lines 170-175) reads
\* v["time_window"][0] of every vehicle.
BackwardShrinkRaises(vehicles) ==
    \E k \in DOMAIN vehicles : ~HasWindow(vehicles[k])

\* ------------------------------------------------------------ oracle
FailureCodes == {1, 3}
\* A failure carries code and error only; a stub may add a summary.
FailureResults ==
    {[code |-> c, error |-> "solver error"] : c \in FailureCodes}
        \cup {[code |-> c, error |-> "solver error",
               summary |-> [cost |-> 1, unassigned |-> u]] :
                  c \in FailureCodes, u \in UnassignedCounts}

SuccessResults(routeLists) ==
    {[code |-> 0, routes |-> r, summary |-> [cost |-> c, unassigned |-> u]] :
        r \in routeLists, c \in Costs, u \in UnassignedCounts}

\* Route lists of at most n routes, each given by its last arrival.
RouteLists(n, times) == UNION {[1..k -> times] : k \in 0..n}

\* sol with sol["origin"] = origin
WithOrigin(sol, origin) ==
    [code |-> sol.code, routes |-> sol.routes, summary |-> sol.summary,
     origin |-> origin]

\* sol after sol.pop("origin", None)
StripOrigin(sol) == [k \in DOMAIN sol \ {"origin"} |-> sol[k]]

\* ------------------------------------------------------------ exceptions
NoError == [type |-> "none"]
KeyError(key) == [type |-> "KeyError", key |-> key]
ValueError == [type |-> "ValueError"]
OSError(errno, strerror) == [type |-> "OSError", errno |-> errno, strerror |-> strerror]
PlotFailure == [type |-> "PlotFailure"]

\* ------------------------------------------------------------ state
VARIABLES
    problem,        \* the argument of solve_asap
    pc,             \* where solve_asap is
    init,           \* the result of the initial solve
    solutions,      \* the candidate pool
    earliest,       \* dichotomy's lower bound
    latest,         \* dichotomy's upper bound
    current,        \* backward_search: the vehicles of its working instance
    bw_latest,      \* backward_search: latest
    bw_unassigned,  \* backward_search: unassigned
    bw_solutions,   \* backward_search: its output list
    calls,          \* the oracle calls made so far, with the instance handed over
    collected,      \* the pool as handed to step 4 (sort and filter)
    oracle,         \* what is known of the solver: any answers, or a threshold
    result,         \* what solve_asap returned
    error           \* the exception solve_asap raised

vars == <<problem, pc, init, solutions, earliest, latest, current, bw_latest,
          bw_unassigned, bw_solutions, calls, collected, oracle, result, error>>

NoResult == [kind |-> "none"]
NotSolved == [pending |-> TRUE]
NoHorizon == -1

Vehicles == problem.instance.vehicles

\* One oracle call: the phase that made it, the vehicles of the instance
\* handed over, the horizon the instance was cut to, the answer's unassigned.
Call(phase, vehicles, horizon, answer) ==
    [phase |-> phase, vehicles |-> vehicles, horizon |-> horizon,
     unassigned |-> IF "summary" \in DOMAIN answer
                    THEN answer.summary.unassigned ELSE -1]

Problems(fleets) ==
    [instance : [vehicles : fleets],
     return_pareto_front : BOOLEAN,
     pareto_front_more_solution : BOOLEAN,
     pareto_plot_file : BOOLEAN]

AnyOracle == [kind |-> "any"]
MonotoneOracle(t) == [kind |-> "monotone", threshold |-> t]

InitWith(problems, oracles) ==
    /\ problem \in problems
    /\ oracle \in oracles
    /\ pc = "start"
    /\ init = NotSolved
    /\ solutions = <<>>
    /\ earliest = 0
    /\ latest = 0
    /\ current = <<>>
    /\ bw_latest = 0
    /\ bw_unassigned = 0
    /\ bw_solutions = <<>>
    /\ calls = <<>>
    /\ collected = <<>>
    /\ result = NoResult
    /\ error = NoError

Init == InitWith(Problems(Fleets), {AnyOracle})

Raise(e) ==
    /\ pc' = "failed"
    /\ error' = e

\* ------------------------------------------------------------ step 1
\* Lines 232-241, and line 82 of dichotomy's preamble: the exception the
\* initial result a makes solve_asap raise, or NoError.  The log call of
\* lines 233-237 evaluates init["summary"] before any check.
\* A faulty step 1: the unassigned count of the initial result is not looked at.
InitialCheckCodeOnly(a) ==
    IF "summary" \notin DOMAIN a THEN KeyError("summary")
    ELSE IF a.code # 0 THEN OSError(a.code, a.error)
    ELSE IF a.routes = <<>> THEN ValueError
    ELSE NoError

InitialCheck(a) ==
    IF "summary" \notin DOMAIN a THEN KeyError("summary")
    ELSE IF a.code # 0 THEN OSError(a.code, a.error)
    ELSE IF a.summary.unassigned # 0
         THEN OSError(2, "Initial solution has unassigned jobs")
    ELSE IF a.routes = <<>> THEN ValueError
    ELSE NoError

\* dichotomy's bounds (lines 88-97)
InitialEarliest(a, vehicles) ==
    IF Len(a.routes) < Len(vehicles) THEN EarliestTW(vehicles)
    ELSE SeqMin(a.routes)

InitialLatest(a) == SeqMax(a.routes)

InitialSolve(answers) ==
    /\ pc = "start"
    /\ \E a \in answers :
        /\ init' = a
        /\ calls' = Append(calls, Call("initial", Vehicles, NoHorizon, a))
        /\ IF InitialCheck(a) # NoError
           THEN /\ Raise(InitialCheck(a))
                /\ UNCHANGED <<solutions, earliest, latest>>
           ELSE /\ solutions' = <<WithOrigin(a, "initial")>>
                /\ earliest' = InitialEarliest(a, Vehicles)
                /\ latest' = InitialLatest(a)
                /\ pc' = "dichotomy"
                /\ error' = error
    /\ UNCHANGED <<problem, current, bw_latest, bw_unassigned, bw_solutions,
                   collected, oracle, result>>

InitialAnswers ==
    FailureResults \cup SuccessResults(RouteLists(Len(Vehicles), Times))

\* ------------------------------------------------------------ step 2
\* A faulty probe choice: a linear scan upwards from earliest.
CandidateNextToEarliest == earliest + 1

\* Line 101: the midpoint of the bounds, rounded down.
Candidate == (earliest + latest) \div 2

\* What a probe answer may be: any result, with at most one route.
ProbeRouteLists == RouteLists(1, Times)
ProbeAnswers ==
    {[code |-> c, error |-> "solver error"] : c \in FailureCodes}
        \cup SuccessResults(ProbeRouteLists)

\* A faulty test: every result that carries a summary counts as routed.
FeasibleWithoutUnassignedTest(a) == "summary" \in DOMAIN a

\* Lines 134-139: a result with zero unassigned jobs is recorded and moves
\* latest down to the candidate; any other result moves earliest up to it.
Feasible(a) == a.summary.unassigned = 0

\* A faulty update: the two bounds are moved the wrong way round.
DichotomyBoundsSwapped(a) ==
    IF Feasible(a)
    THEN [earliest |-> Candidate, latest |-> latest]
    ELSE [earliest |-> earliest, latest |-> Candidate]

\* A faulty tightening: latest is moved one below the feasible candidate.
DichotomyBoundsBelowCandidate(a) ==
    IF Feasible(a)
    THEN [earliest |-> earliest, latest |-> Candidate - 1]
    ELSE [earliest |-> Candidate, latest |-> latest]

DichotomyBounds(a) ==
    IF Feasible(a)
    THEN [earliest |-> earliest, latest |-> Candidate]
    ELSE [earliest |-> Candidate, latest |-> latest]

\* One iteration of the dichotomy loop (lines 100-139).
DichotomyStep(answers) ==
    /\ pc = "dichotomy"
    /\ Candidate \notin {earliest, latest}
    /\ IF DichotomyShrinkRaises(Vehicles, Candidate)
       THEN /\ Raise(KeyError("time_window"))
            /\ UNCHANGED <<solutions, earliest, latest, calls>>
       ELSE \E a \in answers :
            /\ calls' = Append(calls, Call("dichotomy",
                                           Shrink(Vehicles, Candidate), Candidate, a))
            /\ IF "routes" \notin DOMAIN a
               THEN /\ Raise(KeyError("routes"))
                    /\ UNCHANGED <<solutions, earliest, latest>>
               ELSE /\ solutions' = IF Feasible(a)
                                   THEN Append(solutions, WithOrigin(a, "dichotomy"))
                                   ELSE solutions
                    /\ earliest' = DichotomyBounds(a).earliest
                    /\ latest' = DichotomyBounds(a).latest
                    /\ UNCHANGED <<pc, error>>
    /\ UNCHANGED <<problem, init, current, bw_latest, bw_unassigned, bw_solutions,
                   collected, oracle, result>>

\* The loop's break (line 102) and return; solve_asap goes on to step 3
\* (backward_search's preamble, lines 147-150) or to step 4.
DichotomyReturn ==
    /\ pc = "dichotomy"
    /\ Candidate \in {earliest, latest}
    /\ IF problem.pareto_front_more_solution
       THEN /\ pc' = "backward_search"
            /\ current' = Vehicles
            /\ bw_latest' = SeqMax(init.routes)
            /\ bw_unassigned' = init.summary.unassigned
            /\ bw_solutions' = <<>>
       ELSE /\ pc' = "reduce"
            /\ UNCHANGED <<current, bw_latest, bw_unassigned, bw_solutions>>
    /\ UNCHANGED <<problem, init, solutions, earliest, latest, calls, collected,
                   oracle, result, error>>

\* ------------------------------------------------------------ step 3
\* One iteration of the backward loop (lines 152-175): solve `current`,
\* take the completion time (max() of an empty routes list raises
\* ValueError), append the result, decrement latest, cut the vehicles.
\* The loop itself has no iteration limit; cap bounds the exploration.
BackwardStep(answers, cap) ==
    /\ pc = "backward_search"
    /\ bw_unassigned = 0
    /\ Len(bw_solutions) < cap
    /\ \E a \in answers :
        /\ calls' = Append(calls, Call("backward_search", current, bw_latest, a))
        /\ IF "routes" \notin DOMAIN a
           THEN /\ Raise(KeyError("routes"))
                /\ UNCHANGED <<current, bw_latest, bw_unassigned, bw_solutions>>
           ELSE IF a.routes = <<>>
           THEN /\ Raise(ValueError)
                /\ UNCHANGED <<current, bw_latest, bw_unassigned, bw_solutions>>
           ELSE /\ bw_solutions' = Append(bw_solutions, WithOrigin(a, "backward_search"))
                /\ bw_unassigned' = a.summary.unassigned
                /\ bw_latest' = bw_latest - 1
                /\ IF BackwardShrinkRaises(current)
                   THEN /\ Raise(KeyError("time_window"))
                        /\ current' = current
                   ELSE /\ current' = Shrink(current, bw_latest - 1)
                        /\ UNCHANGED <<pc, error>>
    /\ UNCHANGED <<problem, init, solutions, earliest, latest, collected, oracle,
                   result>>

\* The loop's exit and `solutions += backward_search(...)` (line 248).
BackwardReturn ==
    /\ pc = "backward_search"
    /\ bw_unassigned # 0
    /\ solutions' = solutions \o bw_solutions
    /\ pc' = "reduce"
    /\ UNCHANGED <<problem, init, earliest, latest, current, bw_latest,
                   bw_unassigned, bw_solutions, calls, collected, oracle, result,
                   error>>

\* ------------------------------------------------------------ step 4
\* Lines 251-253.  The sort key is max() over the routes of each member.
ReducePool(sols) == filter_unique(filter_dominated(SortByCompletion(sols)))

Reduce ==
    /\ pc = "reduce"
    /\ collected' = solutions
    /\ IF \E k \in DOMAIN solutions : solutions[k].routes = <<>>
       THEN /\ Raise(ValueError)
            /\ UNCHANGED solutions
       ELSE /\ solutions' = ReducePool(solutions)
            /\ pc' = IF problem.pareto_plot_file THEN "plot" ELSE "return"
            /\ error' = error
    /\ UNCHANGED <<problem, init, earliest, latest, current, bw_latest,
                   bw_unassigned, bw_solutions, calls, oracle, result>>

\* ------------------------------------------------------------ step 5
\* Lines 256-265: the call of plot_pareto_front is not guarded, so what the
\* plotting collaborator raises leaves solve_asap.
PlotOutcome(raised) == IF raised THEN PlotFailure ELSE NoError

Plot ==
    /\ pc = "plot"
    /\ \E raised \in BOOLEAN :
        IF PlotOutcome(raised) # NoError
        THEN Raise(PlotOutcome(raised))
        ELSE pc' = "return" /\ error' = error
    /\ UNCHANGED <<problem, init, solutions, earliest, latest, current, bw_latest,
                   bw_unassigned, bw_solutions, calls, collected, oracle, result>>

\* ------------------------------------------------------------ step 6
\* Lines 268-285.
\* A faulty choice of the best member: the last one of the pool.
BestIsLast(sols) == sols[Len(sols)]

Best(sols) == sols[1]

Frontier(sols) == [k \in DOMAIN sols |-> StripOrigin(sols[k])]

Return ==
    /\ pc = "return"
    /\ IF problem.return_pareto_front
       THEN /\ solutions' = Frontier(solutions)
            /\ result' = [kind |-> "frontier", solutions |-> Frontier(solutions)]
            /\ pc' = "done"
            /\ error' = error
       ELSE IF solutions = <<>>
       THEN /\ Raise([type |-> "IndexError"])
            /\ UNCHANGED <<solutions, result>>
       ELSE /\ solutions' = [solutions EXCEPT ![1] = StripOrigin(Best(solutions))]
            /\ result' = [kind |-> "best", solution |-> StripOrigin(Best(solutions))]
            /\ pc' = "done"
            /\ error' = error
    /\ UNCHANGED <<problem, init, earliest, latest, current, bw_latest,
                   bw_unassigned, bw_solutions, calls, collected, oracle>>

\* ------------------------------------------------------------ solve_asap
Next ==
    \/ InitialSolve(InitialAnswers)
    \/ DichotomyStep(ProbeAnswers)
    \/ DichotomyReturn
    \/ BackwardStep(ProbeAnswers, MaxSweep)
    \/ BackwardReturn
    \/ Reduce
    \/ Plot
    \/ Return

Spec == Init /\ [][Next]_vars

\* ------------------------------------------------------------ the filters alone
\* A filter called on a pool of its own: any members in any order, each a
\* solution of its own (tag) with one route.
PoolMember(t, c, k) ==
    [code |-> 0, routes |-> <<t>>, summary |-> [cost |-> c, unassigned |-> 0],
     origin |-> "dichotomy", tag |-> k]

Coords == (1..MaxCoord) \X (1..MaxCoord)

Pools ==
    UNION {{[k \in 1..n |-> PoolMember(f[k][1], f[k][2], k)] : f \in [1..n -> Coords]} :
              n \in 0..MaxPool}

NoProblem ==
    [instance |-> [vehicles |-> <<>>], return_pareto_front |-> FALSE,
     pareto_front_more_solution |-> FALSE, pareto_plot_file |-> FALSE]

InitFilter ==
    /\ problem = NoProblem
    /\ oracle = AnyOracle
    /\ pc = "pool"
    /\ init = NotSolved
    /\ solutions \in Pools
    /\ earliest = 0
    /\ latest = 0
    /\ current = <<>>
    /\ bw_latest = 0
    /\ bw_unassigned = 0
    /\ bw_solutions = <<>>
    /\ calls = <<>>
    /\ collected = <<>>
    /\ result = NoResult
    /\ error = NoError

CallFilter(name, filtered) ==
    /\ pc = "pool"
    /\ collected' = solutions
    /\ solutions' = filtered
    /\ pc' = name
    /\ UNCHANGED <<problem, init, earliest, latest, current, bw_latest,
                   bw_unassigned, bw_solutions, calls, oracle, result, error>>

CallFilterDominated == CallFilter("filter_dominated", filter_dominated(solutions))

CallFilterUnique == CallFilter("filter_unique", filter_unique(solutions))

NextFilter == CallFilterDominated \/ CallFilterUnique

SpecFilter == InitFilter /\ [][NextFilter]_vars

\* ------------------------------------------------------------ a monotone oracle
\* The dichotomy against a solver that routes every job exactly when the
\* horizon is at least oracle.threshold.
MonoTimes == 0..MaxHorizon

MonoFleets ==
    {<<[id |-> 1, time_window |-> <<0, MaxHorizon>>]>>,
     <<[id |-> 1, time_window |-> <<0, MaxHorizon>>],
       [id |-> 2, time_window |-> <<1, MaxHorizon>>]>>}

MonoProblems ==
    {p \in Problems(MonoFleets) :
        ~p.pareto_front_more_solution /\ ~p.pareto_plot_file}

MonoInitialAnswers ==
    {[code |-> 0, routes |-> r, summary |-> [cost |-> MaxCost, unassigned |-> 0]] :
        r \in RouteLists(Len(Vehicles), MonoTimes) \ {<<>>}}

\* At horizon h: a full routing that ends at h or just before it when
\* h >= threshold, and a result with unassigned jobs otherwise.
MonotoneAnswers(h) ==
    IF h >= oracle.threshold
    THEN {[code |-> 0, routes |-> <<t>>, summary |-> [cost |-> c, unassigned |-> 0]] :
             t \in {h - 1, h} \cap MonoTimes, c \in Costs}
    ELSE {[code |-> 0, routes |-> r, summary |-> [cost |-> 1, unassigned |-> 1]] :
             r \in {<<>>, <<h>>}}

InitMono == InitWith(MonoProblems, {MonotoneOracle(t) : t \in MonoTimes})

NextMono ==
    \/ InitialSolve(MonoInitialAnswers)
    \/ DichotomyStep(MonotoneAnswers(Candidate))
    \/ DichotomyReturn
    \/ Reduce
    \/ Return

SpecMono == InitMono /\ [][NextMono]_vars

\* ------------------------------------------------------------ an arbitrary oracle
\* The dichotomy over a wide horizon against a solver free to answer each
\* probe either way, for fleets in which a vehicle's window may end early.
DichoFleets ==
    {<<[id |-> 1, time_window |-> <<0, MaxHorizon>>]>>,
     <<[id |-> 1, time_window |-> <<0, MaxHorizon>>],
       [id |-> 2, time_window |-> <<1, 2>>]>>,
     <<[id |-> 1, time_window |-> <<0, MaxHorizon>>],
       [id |-> 2, time_window |-> <<1, MaxHorizon>>]>>}

DichoProblems ==
    {p \in Problems(DichoFleets) :
        ~p.pareto_front_more_solution /\ ~p.pareto_plot_file}

\* At horizon h: a full routing that ends at h, or a result with unassigned
\* jobs, with or without routes.
AnyHorizonAnswers(h) ==
    {[code |-> 0, routes |-> <<h>>, summary |-> [cost |-> c, unassigned |-> 0]] :
        c \in Costs}
        \cup {[code |-> 0, routes |-> r, summary |-> [cost |-> 1, unassigned |-> 1]] :
                 r \in {<<>>, <<h>>}}

InitDicho == InitWith(DichoProblems, {AnyOracle})

NextDicho ==
    \/ InitialSolve(MonoInitialAnswers)
    \/ DichotomyStep(AnyHorizonAnswers(Candidate))
    \/ DichotomyReturn
    \/ Reduce
    \/ Return

SpecDicho == InitDicho /\ [][NextDicho]_vars

\* ------------------------------------------------------------ a deeper sweep
\* The backward sweep followed over several iterations, for fleets whose
\* second vehicle starts late enough to be removed on the way down.
SweepTimes == 0..MaxSweepTime

SweepFleets ==
    {<<[id |-> 1, time_window |-> <<0, MaxSweepTime>>]>>}
        \cup {<<[id |-> 1, time_window |-> <<0, MaxSweepTime>>],
                 [id |-> 2, time_window |-> <<s, MaxSweepTime>>]>> :
                     s \in 1..MaxSweepTime}

SweepProblems ==
    {p \in Problems(SweepFleets) :
        p.pareto_front_more_solution /\ ~p.pareto_plot_file}

SweepInitialAnswers ==
    {[code |-> 0, routes |-> r, summary |-> [cost |-> MaxCost, unassigned |-> 0]] :
        r \in RouteLists(Len(Vehicles), SweepTimes) \ {<<>>}}

\* The sweep's horizon falls below 0 once every vehicle is gone; a stub
\* that still answers reports arrival 0.
SweepAnswers(h) == AnyHorizonAnswers(IF h < 0 THEN 0 ELSE h)

InitSweep == InitWith(SweepProblems, {AnyOracle})

NextSweep ==
    \/ InitialSolve(SweepInitialAnswers)
    \/ DichotomyStep(AnyHorizonAnswers(Candidate))
    \/ DichotomyReturn
    \/ BackwardStep(SweepAnswers(bw_latest), MaxDeepSweep)
    \/ BackwardReturn
    \/ Reduce
    \/ Return

SpecSweep == InitSweep /\ [][NextSweep]_vars

\* ------------------------------------------------------------ properties
Last(s) == s[Len(s)]

Origins(sols) == {sols[k].origin : k \in DOMAIN sols}

\* j is strictly better than i on both axes.
StrictlyDominates(a, b) ==
    CompletionTime(a) < CompletionTime(b) /\ Cost(a) < Cost(b)

\* The glossary's dominance: no worse on both axes, strictly better on one.
Dominates(a, b) ==
    /\ CompletionTime(a) <= CompletionTime(b)
    /\ Cost(a) <= Cost(b)
    /\ (CompletionTime(a) < CompletionTime(b) \/ Cost(a) < Cost(b))

\* C1: the frontier solve_asap returns holds no two members i # j with
\* completion[j] < completion[i] and cost[j] < cost[i].
C1_ReturnedFrontierNotStrictlyDominated ==
    result.kind = "frontier" =>
        \A i, j \in DOMAIN result.solutions :
            i # j => ~StrictlyDominates(result.solutions[j], result.solutions[i])

\* A frontier of two or more members is returned from a pool built by the
\* initial solve, the dichotomy and the backward sweep, out of which a
\* strictly dominated member was removed.
C1_Witness ==
    /\ result.kind = "frontier"
    /\ Len(result.solutions) >= 2
    /\ Origins(collected) = {"initial", "dichotomy", "backward_search"}
    /\ DominatedIndices(collected) # {}

\* C2 as stated: once sort, filter_dominated and filter_unique have run, no
\* member of the pool is dominated (glossary sense) by another member.
C2_ReducedPoolIsParetoSet ==
    pc \in {"plot", "return"} =>
        \A i, j \in DOMAIN solutions :
            i # j => ~Dominates(solutions[j], solutions[i])

\* C2 amended: in the reduced pool a member is dominated by another only
\* through a tie: the two have equal completion time or equal cost (no
\* member is worse than another on both axes), and no two members have the
\* same completion time and the same cost.
C2_ReducedPoolDominanceOnlyByTie ==
    pc \in {"plot", "return"} =>
        \A i, j \in DOMAIN solutions :
            i # j =>
                /\ Dominates(solutions[j], solutions[i]) =>
                      \/ CompletionTime(solutions[j]) = CompletionTime(solutions[i])
                      \/ Cost(solutions[j]) = Cost(solutions[i])
                /\ ~SameCoordinates(solutions[j], solutions[i])

\* The reduction removed a member, and two members with equal completion
\* time and different cost are both left.
C2_Witness ==
    /\ pc \in {"plot", "return"}
    /\ Len(solutions) < Len(collected)
    /\ \E i, j \in DOMAIN solutions :
          /\ CompletionTime(solutions[i]) = CompletionTime(solutions[j])
          /\ Cost(solutions[j]) < Cost(solutions[i])

\* C3: one call of filter_unique leaves no two members with the same
\* completion time and the same cost, and what it leaves is, unchanged and
\* in order, the lowest-index member of every group of such members.
C3_FilterUniqueKeepsFirstOfEachGroup ==
    pc = "filter_unique" =>
        /\ \A i, j \in DOMAIN solutions :
              i # j => ~SameCoordinates(solutions[i], solutions[j])
        /\ {solutions[k].tag : k \in DOMAIN solutions}
              = {i \in DOMAIN collected :
                    \A j \in 1..(i - 1) : ~SameCoordinates(collected[j], collected[i])}
        /\ \A k \in DOMAIN solutions : solutions[k] = collected[solutions[k].tag]
        /\ \A i, j \in DOMAIN solutions : i < j => solutions[i].tag < solutions[j].tag

\* filter_unique ran on a pool with three members of the same coordinates.
C3_Witness ==
    /\ pc = "filter_unique"
    /\ \E i, j, k \in DOMAIN collected :
          /\ i < j /\ j < k
          /\ SameCoordinates(collected[i], collected[j])
          /\ SameCoordinates(collected[j], collected[k])
    /\ Len(solutions) >= 1

\* C4 as stated: an initial result that is a failure carrying code and error
\* only makes solve_asap raise an error that carries that code and that
\* message, after the one oracle call.
C4_InitialFailureCarriesCodeAndError ==
    (DOMAIN init = {"code", "error"} /\ init.code # 0) =>
        /\ pc = "failed"
        /\ error = OSError(init.code, init.error)
        /\ Len(calls) = 1

\* C5: an initial result with code 0 and a nonzero unassigned count makes
\* solve_asap raise OSError(2, "Initial solution has unassigned jobs") after
\* that one oracle call; a result with a nonzero code and a nonzero
\* unassigned count raises the code's error, the code being checked first.
C5_InfeasibleInitialSolution ==
    ("summary" \in DOMAIN init /\ init.summary.unassigned # 0) =>
        /\ pc = "failed"
        /\ Len(calls) = 1
        /\ error = IF init.code = 0
                   THEN OSError(2, "Initial solution has unassigned jobs")
                   ELSE OSError(init.code, init.error)

\* The initial solve answered code 0 with jobs left unassigned, and
\* solve_asap has raised.
C5_Witness ==
    /\ "summary" \in DOMAIN init
    /\ init.code = 0
    /\ init.summary.unassigned # 0
    /\ error.type = "OSError"
    /\ error.errno = 2

AllWindowed == \A k \in DOMAIN Vehicles : HasWindow(Vehicles[k])

\* C6 as stated: after a valid initial solve, a step of the dichotomy or of
\* the backward sweep that receives a result leaving jobs unassigned (its
\* routes list empty or not) does not make solve_asap fail.  Stated for
\* instances whose vehicles all declare a time window.
C6_UnassignedResultNeverFails ==
    [][(/\ AllWindowed
        /\ pc \in {"dichotomy", "backward_search"}
        /\ Len(calls') = Len(calls) + 1
        /\ Last(calls').unassigned > 0) => pc' # "failed"]_vars

\* C7: in single-best mode the reduced pool is never empty (taking its
\* first member never fails), exactly one solution is returned, and its
\* completion time is at most that of every candidate collected.
C7_BestHasLowestCompletionTime ==
    /\ pc \in {"plot", "return"} => solutions # <<>>
    /\ error.type # "IndexError"
    /\ result.kind = "best" =>
          \A k \in DOMAIN collected :
              CompletionTime(result.solution) <= CompletionTime(collected[k])

\* Single-best mode returned a solution out of a pool with initial,
\* dichotomy and backward-sweep entries, one that completes strictly earlier
\* than the initial solution.
C7_Witness ==
    /\ result.kind = "best"
    /\ ~problem.return_pareto_front
    /\ Origins(collected) = {"initial", "dichotomy", "backward_search"}
    /\ CompletionTime(result.solution) < CompletionTime(init)

\* C8: the frontier returned in full-frontier mode is ordered by
\* non-decreasing completion time.
C8_FrontierSortedByCompletionTime ==
    result.kind = "frontier" =>
        \A i, j \in DOMAIN result.solutions :
            i < j => CompletionTime(result.solutions[i])
                        <= CompletionTime(result.solutions[j])

\* A frontier of two or more members with different completion times is
\* returned from a pool that was not collected in that order.
C8_Witness ==
    /\ result.kind = "frontier"
    /\ Len(result.solutions) >= 2
    /\ CompletionTime(result.solutions[1]) < CompletionTime(Last(result.solutions))
    /\ collected # SortByCompletion(collected)

\* C9 as stated: a failure of the plotting collaborator never leaves
\* solve_asap: with a plot target configured the result is still returned.
C9_PlotFailureDoesNotAbort == error # PlotFailure

\* The horizons of the dichotomy probes whose result was recorded.
RecordedHorizons ==
    {calls[k].horizon : k \in {q \in DOMAIN calls :
                                  calls[q].phase = "dichotomy" /\ calls[q].unassigned = 0}}

DichotomyReturned == pc \in {"backward_search", "reduce", "plot", "return", "done"}

\* The oracle is monotone with a threshold strictly above the initial
\* earliest and at most the initial latest.
ThresholdWithinBounds ==
    /\ oracle.kind = "monotone"
    /\ init # NotSolved
    /\ InitialCheck(init) = NoError
    /\ InitialEarliest(init, Vehicles) < oracle.threshold
    /\ oracle.threshold <= InitialLatest(init)

\* C10: against a monotone oracle with earliest < T <= latest, the
\* dichotomy ends with latest = T, and when T is below the initial latest
\* the smallest horizon of a recorded dichotomy solution is T.
C10_DichotomyConvergesToThreshold ==
    (ThresholdWithinBounds /\ DichotomyReturned) =>
        /\ latest = oracle.threshold
        /\ oracle.threshold < InitialLatest(init) =>
              /\ RecordedHorizons # {}
              /\ SetMin(RecordedHorizons) = oracle.threshold

\* The spec's scenario in small: two routes whose ends are several units
\* apart, a threshold strictly between them, and a dichotomy that has
\* returned after feasible and infeasible probes.
C10_Witness ==
    /\ ThresholdWithinBounds
    /\ DichotomyReturned
    /\ Len(init.routes) = 2
    /\ oracle.threshold < InitialLatest(init)
    /\ latest = oracle.threshold
    /\ \E k \in DOMAIN calls : calls[k].phase = "dichotomy" /\ calls[k].unassigned > 0
    /\ Cardinality(RecordedHorizons) >= 2

\* ------------------------------------------------------------ C11
DichotomyCalls == {k \in DOMAIN calls : calls[k].phase = "dichotomy"}

\* The least k with 2^k >= n (0 for n <= 1).
CeilLog2(n) ==
    IF n <= 1 THEN 0
    ELSE CHOOSE k \in 1..n : 2^k >= n /\ 2^(k - 1) < n

InitialWidth == InitialLatest(init) - InitialEarliest(init, Vehicles)

\* C11: whatever the oracle answers, the probes made so far plus the probes
\* the current bounds still allow never exceed ceil(log2(latest - earliest))
\* of the initial bounds, so the dichotomy ends after at most that many
\* oracle calls, and after none when the initial bounds are at most 1 apart.
C11_DichotomyCallsAtMostLog2 ==
    solutions # <<>> =>
        /\ Cardinality(DichotomyCalls) <= CeilLog2(InitialWidth)
        /\ pc = "dichotomy" =>
              Cardinality(DichotomyCalls) + CeilLog2(latest - earliest)
                  <= CeilLog2(InitialWidth)

\* The dichotomy has returned after three probes of an interval of width 8,
\* some feasible and some not.
C11_Witness ==
    /\ DichotomyReturned
    /\ InitialWidth = MaxHorizon
    /\ Cardinality(DichotomyCalls) = CeilLog2(MaxHorizon)
    /\ \E j, k \in DichotomyCalls :
          calls[j].unassigned = 0 /\ calls[k].unassigned # 0

\* ------------------------------------------------------------ C12
\* The oracle leaves jobs unassigned at every horizon below the completion
\* time of the initial solution.
InfeasibleBelowInitialCompletion ==
    /\ oracle.kind = "monotone"
    /\ init # NotSolved
    /\ InitialCheck(init) = NoError
    /\ oracle.threshold >= InitialLatest(init)

\* C12: against an oracle that leaves jobs unassigned at every horizon
\* below the initial completion time, the dichotomy holds, during its loop
\* and when it returns, exactly one solution: the initial one, tagged
\* origin = "initial".
C12_OnlyInitialSolutionWhenNothingShorterIsFeasible ==
    (InfeasibleBelowInitialCompletion /\ pc \in {"dichotomy", "reduce"}) =>
        solutions = <<WithOrigin(init, "initial")>>

\* The dichotomy has returned after at least two probes, all infeasible.
C12_Witness ==
    /\ InfeasibleBelowInitialCompletion
    /\ pc = "reduce"
    /\ Cardinality(DichotomyCalls) >= 2
    /\ InitialEarliest(init, Vehicles) > 0

\* ------------------------------------------------------------ C13
Min(a, b) == IF a <= b THEN a ELSE b

\* The original vehicles whose window starts at or before h, each with its
\* window end cut to min(original end, h).
VehiclesWithin(h) ==
    LET StartsBy(v) == v.time_window[1] <= h
        kept == SelectSeq(Vehicles, StartsBy)
    IN  [k \in DOMAIN kept |->
            [kept[k] EXCEPT !.time_window =
                <<kept[k].time_window[1], Min(kept[k].time_window[2], h)>>]]

\* C13: every instance a dichotomy probe hands to the oracle at horizon h
\* holds exactly the original vehicles whose window start is <= h, each
\* with window end min(original end, h), so no window is widened.
C13_ProbeNeverWidensAWindow ==
    \A k \in DichotomyCalls : calls[k].vehicles = VehiclesWithin(calls[k].horizon)

\* ------------------------------------------------------------ C14
\* C14: for an instance in which some vehicle declares no time window, no
\* dichotomy probe and no backward-sweep step ends in an error over the
\* missing window: the vehicle is kept and given the horizon as window end.
C14_WindowlessVehicleIsProbedWithoutError ==
    ~AllWindowed => error # KeyError("time_window")

\* ------------------------------------------------------------ C15
NotFullyRouted(sols) == {k \in DOMAIN sols : sols[k].summary.unassigned # 0}

\* C15: every solution the dichotomy has recorded has unassigned = 0, every
\* entry of the backward sweep's output except possibly the last has
\* unassigned = 0, and the pool handed to the frontier reduction holds at
\* most one member that is not fully routed.
C15_AtMostOneNotFullyRoutedInPool ==
    /\ pc \in {"dichotomy", "backward_search", "reduce"} =>
          \A k \in DOMAIN solutions :
              solutions[k].origin = "dichotomy" => solutions[k].summary.unassigned = 0
    /\ \A k \in DOMAIN bw_solutions :
          k < Len(bw_solutions) => bw_solutions[k].summary.unassigned = 0
    /\ Cardinality(NotFullyRouted(collected)) <= 1

\* A pool of a dichotomy point and three sweep entries, the last of which
\* leaves jobs unassigned, has been handed to the reduction.
C15_Witness ==
    /\ pc = "return"
    /\ "dichotomy" \in Origins(collected)
    /\ Len(bw_solutions) = MaxDeepSweep
    /\ NotFullyRouted(collected) = {Len(collected)}
    /\ \E k \in DichotomyCalls : calls[k].unassigned # 0

\* ------------------------------------------------------------ C16
\* C16: whatever solve_asap returns, the single best solution or every
\* member of the frontier, has unassigned = 0.
C16_ReturnedSolutionsAreFullyRouted ==
    /\ result.kind = "best" => result.solution.summary.unassigned = 0
    /\ result.kind = "frontier" => NotFullyRouted(result.solutions) = {}

\* ------------------------------------------------------------ C17
\* C17: the backward sweep ends exactly on an oracle result that reports a
\* nonzero unassigned count: it returns only with such a result as its last
\* call, and a step that receives such a result appends it and stays in
\* the sweep only to return, with no further oracle call.
C17_SweepEndsOnFirstUnassignedResult ==
    [][/\ (pc = "backward_search" /\ pc' = "reduce") =>
             (Last(calls).phase = "backward_search" /\ Last(calls).unassigned > 0)
       /\ (/\ pc = "backward_search"
           /\ Len(calls') = Len(calls) + 1
           /\ Last(calls').unassigned > 0) =>
             /\ bw_solutions' # bw_solutions
             /\ Last(bw_solutions').summary.unassigned > 0
             /\ pc' = "backward_search"
       /\ (pc = "backward_search" /\ bw_unassigned > 0) => calls' = calls]_vars

\* ------------------------------------------------------------ C18
SweepCalls == {k \in DOMAIN calls : calls[k].phase = "backward_search"}

Ids(vehicles) == {vehicles[k].id : k \in DOMAIN vehicles}

\* C18: the sweep's first call hands over the original vehicles untouched;
\* its k-th call (k >= 2) is made at horizon L - (k - 1), L the completion
\* time of the initial solution: it holds exactly the original vehicles
\* whose window start is at most that horizon, each with that horizon as
\* window end, and no vehicle absent from the call before it.
C18_SweepHorizonsDecreaseByOne ==
    \A i \in SweepCalls :
        LET k == Cardinality({j \in SweepCalls : j <= i})
            h == CompletionTime(init) - (k - 1)
            handed == calls[i].vehicles
        IN  IF k = 1
            THEN handed = Vehicles
            ELSE /\ calls[i].horizon = h
                 /\ Ids(handed) =
                       {Vehicles[j].id : j \in {q \in DOMAIN Vehicles :
                                                   Vehicles[q].time_window[1] <= h}}
                 /\ \A j \in DOMAIN handed : handed[j].time_window[2] = h
                 /\ Ids(handed) \subseteq Ids(calls[i - 1].vehicles)
                 /\ i - 1 \in SweepCalls

\* Three sweep calls have been made; the second vehicle was handed over at
\* the first and is gone at the third.
C18_Witness ==
    /\ Cardinality(SweepCalls) = MaxDeepSweep
    /\ \E i \in SweepCalls :
          /\ i + 2 \in SweepCalls
          /\ Ids(calls[i].vehicles) = {1, 2}
          /\ Ids(calls[i + 1].vehicles) = {1, 2}
          /\ Ids(calls[i + 2].vehicles) = {1}

\* ------------------------------------------------------------ C19
\* C19: whatever the oracle answers, a step of the dichotomy never raises
\* latest nor lowers earliest, a probe is made at a horizon strictly
\* between the two bounds, and a probe that is recorded has a horizon
\* strictly below every horizon recorded before it.
C19_BoundsCloseInAndRecordedHorizonsDecrease ==
    [][pc = "dichotomy" =>
         /\ latest' <= latest
         /\ earliest' >= earliest
         /\ Len(calls') = Len(calls) + 1 =>
               (earliest < Last(calls').horizon /\ Last(calls').horizon < latest)
         /\ Len(solutions') = Len(solutions) + 1 =>
               \A h \in RecordedHorizons : Last(calls').horizon < h]_vars

\* Against an oracle free to answer either way: a feasible probe, then an
\* infeasible one below it, then a second feasible one between the two.
C19_Witness ==
    /\ oracle.kind = "any"
    /\ pc = "reduce"
    /\ Cardinality(RecordedHorizons) = 2
    /\ \E i, j, k \in DichotomyCalls :
          /\ i < j /\ j < k
          /\ calls[i].unassigned = 0
          /\ calls[j].unassigned # 0
          /\ calls[k].unassigned = 0

\* ------------------------------------------------------------ C20
\* C20: one call of filter_dominated leaves, unchanged and in their
\* relative order, exactly the members of the pool at entry that no other
\* member of that pool beats strictly on both completion time and cost;
\* a member that ties with or beats every other member on some axis stays.
C20_FilterDominatedRemovesExactlyTheStrictlyDominated ==
    pc = "filter_dominated" =>
        /\ {solutions[k].tag : k \in DOMAIN solutions}
              = {i \in DOMAIN collected :
                    \A j \in DOMAIN collected :
                        j # i => ~StrictlyDominates(collected[j], collected[i])}
        /\ \A k \in DOMAIN solutions : solutions[k] = collected[solutions[k].tag]
        /\ \A i, j \in DOMAIN solutions : i < j => solutions[i].tag < solutions[j].tag

\* filter_dominated ran on an unsorted pool of three: the first member is
\* strictly dominated by the last and removed, the second ties with the
\* last on cost and stays.
C20_Witness ==
    /\ pc = "filter_dominated"
    /\ Len(collected) = 3
    /\ StrictlyDominates(collected[3], collected[1])
    /\ CompletionTime(collected[3]) < CompletionTime(collected[2])
    /\ Cost(collected[3]) = Cost(collected[2])
    /\ {solutions[k].tag : k \in DOMAIN solutions} = {2, 3}

====
